---- MODULE Spec2Model ----
(***************************************************************************)
(* Certificate.Generator: the batch generation pipeline.                   *)
(*                                                                         *)
(* The model follows one host process (src/index.ts main) or one library   *)
(* caller through configuration loading, data loading, construction of     *)
(* the CertificateGenerator, the chunked batch loop of                     *)
(* generateCertificates, and the process exit.  Each render               *)
(* (generateCertificate) is a small state machine whose suspension points  *)
(* are the three awaits of the source: PDFDocument.load, embedFont, save.  *)
(*                                                                         *)
(* Strings that the code inspects character by character (names, emails,   *)
(* environment values, paths) are sequences of one-character strings.      *)
(* JavaScript numbers that can be NaN are records [nan, n].                *)
(***************************************************************************)
EXTENDS Integers, Sequences, FiniteSets, TLC

(* ------------------------------------------------------------------ *)
(* Bounds of the model                                                 *)
(* ------------------------------------------------------------------ *)

\* Longest batch handed to generateCertificates.
MaxItems == 3

\* Largest CONCURRENCY digit tried besides the default.
MaxConc == 2

\* Longest file name given to sanitizeFilename on its own.
MaxNameLen == 4

(* ------------------------------------------------------------------ *)
(* Characters and strings                                              *)
(* ------------------------------------------------------------------ *)

LowerChars == {"a", "b", "c", "x"}
UpperChars == {"A"}
DigitChars == {"0", "1", "2", "3", "4", "5", "6", "7", "8", "9"}
SpaceChars == {" "}

\* String.prototype.toLowerCase, one character.
LowerChar(c) == IF c = "A" THEN "a" ELSE c

\* The character class [a-z0-9] under the i flag.
IsAlnum(c) == c \in LowerChars \cup UpperChars \cup DigitChars

MapSeq(s, Op(_)) == [k \in 1..Len(s) |-> Op(s[k])]

\* String.prototype.toLowerCase.
ToLowerCase(s) == MapSeq(s, LowerChar)

RECURSIVE TrimStart(_)
TrimStart(s) ==
  IF s # <<>> /\ Head(s) \in SpaceChars THEN TrimStart(Tail(s)) ELSE s

RECURSIVE TrimEnd(_)
TrimEnd(s) ==
  IF s # <<>> /\ s[Len(s)] \in SpaceChars
  THEN TrimEnd(SubSeq(s, 1, Len(s) - 1))
  ELSE s

\* String.prototype.trim.
Trim(s) == TrimEnd(TrimStart(s))

\* .replace(/[^a-z0-9]/gi, "_")
ReplaceNonAlnum(s) == MapSeq(s, LAMBDA c : IF IsAlnum(c) THEN c ELSE "_")

\* .replace(/_+/g, "_")
RECURSIVE CollapseUnderscores(_)
CollapseUnderscores(s) ==
  IF Len(s) < 2 THEN s
  ELSE IF s[1] = "_" /\ s[2] = "_" THEN CollapseUnderscores(Tail(s))
  ELSE <<s[1]>> \o CollapseUnderscores(Tail(s))

\* StripEdgeUnderscores with the pattern /^_/: the trailing one is kept.
StripLeadingUnderscore(s) ==
  IF s # <<>> /\ Head(s) = "_" THEN Tail(s) ELSE s

\* .replace(/^_|_$/g, ""): one leading and one trailing underscore.
StripEdgeUnderscores(s) ==
  LET a == IF s # <<>> /\ Head(s) = "_" THEN Tail(s) ELSE s
  IN  IF a # <<>> /\ a[Len(a)] = "_" THEN SubSeq(a, 1, Len(a) - 1) ELSE a

\* FileUtil.sanitizeFilename
sanitizeFilename(filename) ==
  StripEdgeUnderscores(CollapseUnderscores(ToLowerCase(ReplaceNonAlnum(filename))))

(* ------------------------------------------------------------------ *)
(* JavaScript numbers                                                  *)
(* ------------------------------------------------------------------ *)

NaN == [nan |-> TRUE, n |-> 0]
Num(k) == [nan |-> FALSE, n |-> k]

\* a + b
JsAdd(a, b) == IF a.nan \/ b.nan THEN NaN ELSE Num(a.n + b.n)

\* a < b, a <= b, a > b: every comparison with NaN is false.
JsLt(a, b) == ~a.nan /\ ~b.nan /\ a.n < b.n
JsLe(a, b) == ~a.nan /\ ~b.nan /\ a.n <= b.n
JsGt(a, b) == ~a.nan /\ ~b.nan /\ a.n > b.n

\* Truthiness of a number: 0 and NaN are falsy.
JsTruthy(a) == ~a.nan /\ a.n # 0

DigitVal(c) ==
  CASE c = "0" -> 0 [] c = "1" -> 1 [] c = "2" -> 2 [] c = "3" -> 3
    [] c = "4" -> 4 [] c = "5" -> 5 [] c = "6" -> 6 [] c = "7" -> 7
    [] c = "8" -> 8 [] c = "9" -> 9

RECURSIVE DigitPrefix(_)
DigitPrefix(s) ==
  IF s # <<>> /\ Head(s) \in DigitChars
  THEN <<Head(s)>> \o DigitPrefix(Tail(s))
  ELSE <<>>

RECURSIVE DigitsValue(_)
DigitsValue(d) ==
  IF d = <<>> THEN 0
  ELSE 10 * DigitsValue(SubSeq(d, 1, Len(d) - 1)) + DigitVal(d[Len(d)])

\* parseInt(s): leading white space, an optional sign, the longest digit
\* prefix; NaN when there is no digit.
parseInt(s) ==
  LET t    == TrimStart(s)
      neg  == t # <<>> /\ Head(t) = "-"
      body == IF t # <<>> /\ Head(t) \in {"-", "+"} THEN Tail(t) ELSE t
      d    == DigitPrefix(body)
  IN  IF d = <<>> THEN NaN
      ELSE Num(IF neg THEN 0 - DigitsValue(d) ELSE DigitsValue(d))

\* Array.prototype.slice's ToIntegerOrInfinity and clamping of one bound.
SliceBound(a, len) ==
  IF a.nan THEN 0
  ELSE IF a.n < 0 THEN (IF len + a.n < 0 THEN 0 ELSE len + a.n)
  ELSE IF a.n > len THEN len ELSE a.n

\* The indices (1-based) of configs.slice(start, end).
SliceIndices(start, end, len) ==
  LET lo == SliceBound(start, len)
      hi == SliceBound(end, len)
  IN  [k \in 1..(IF hi > lo THEN hi - lo ELSE 0) |-> lo + k]

(* ------------------------------------------------------------------ *)
(* Errors (src/unnamed/part_000)                                       *)
(* ------------------------------------------------------------------ *)

\* An error is [class, message, cause]; message is a sequence of text
\* pieces, cause is <<>> (none) or <<e>>.
NoError == [class |-> "", message |-> <<>>, cause |-> <<>>]

\* An error of a collaborator (pdf-lib, fs): a plain Error.
RawError(text) == [class |-> "Error", message |-> <<text>>, cause |-> <<>>]

CertificateGeneratorError(message, cause) ==
  [class |-> "CertificateGeneratorError", message |-> message, cause |-> cause]

FileNotFoundError(filePath, cause) ==
  [class |-> "FileNotFoundError",
   message |-> <<"File not found: ">> \o filePath, cause |-> cause]

InvalidConfigError(message) ==
  [class |-> "InvalidConfigError",
   message |-> <<"Invalid configuration: ">> \o message, cause |-> <<>>]

DataValidationError(message) ==
  [class |-> "DataValidationError",
   message |-> <<"Data validation error: ">> \o message, cause |-> <<>>]

\* error instanceof CertificateGeneratorError
IsCertificateGeneratorError(e) ==
  e.class \in {"CertificateGeneratorError", "FileNotFoundError",
               "InvalidConfigError", "DataValidationError"}

(* ------------------------------------------------------------------ *)
(* Configuration (src/config.ts)                                       *)
(* ------------------------------------------------------------------ *)

\* Values tried for the environment variables; <<>> and "" stand for an
\* unset or empty variable (both falsy).
EnvModes == {"", "test", "production", "development"}

RECURSIVE Numeral(_)
Numeral(k) ==
  IF k < 10 THEN <<CHOOSE c \in DigitChars : DigitVal(c) = k>>
  ELSE Numeral(k \div 10) \o Numeral(k % 10)

EnvConcurrencies ==
  {<<>>, <<"0">>, <<"-", "1">>, <<"x">>} \cup {Numeral(k) : k \in 1..MaxConc}

EnvTestNames == {<<>>, <<" ">>, <<"a", " ", "b">>}

EnvFontSizes == {<<>>, <<"0">>, <<"2", "0", "1">>}

OrDefault(v, d) == IF v = <<>> THEN d ELSE v

\* ConfigManager.loadConfig
loadConfig(MODE, CONCURRENCY, TEST_NAME, FONT_SIZE) ==
  [mode         |-> IF MODE = "" THEN "production" ELSE MODE,
   fontSize     |-> parseInt(OrDefault(FONT_SIZE, <<"5", "4">>)),
   concurrency  |-> parseInt(OrDefault(CONCURRENCY, <<"3">>)),
   testName     |-> TEST_NAME,
   templatePath |-> <<"assets/certificate-template.pdf">>,
   fontPath     |-> <<"assets/font.ttf">>,
   outputDir    |-> <<"output/certificates">>]

NoConfig ==
  [mode |-> "", fontSize |-> NaN, concurrency |-> NaN, testName |-> <<>>,
   templatePath |-> <<>>, fontPath |-> <<>>, outputDir |-> <<>>]

\* The generatorOptions object main builds from the configuration.
generatorOptions(config) ==
  [templatePath     |-> config.templatePath,
   fontPath         |-> config.fontPath,
   outputDir        |-> config.outputDir,
   defaultFontSize  |-> config.fontSize,
   concurrency      |-> config.concurrency,
   mode             |-> config.mode,
   testName         |-> config.testName]

(* ------------------------------------------------------------------ *)
(* Record loading (src/utils.ts, src/data-loader.ts)                   *)
(* ------------------------------------------------------------------ *)

\* FileUtil.isValidEmail: /^[^\s@]+@[^\s@]+\.[^\s@]+$/
isValidEmail(email) ==
  /\ \A k \in 1..Len(email) : email[k] \notin SpaceChars
  /\ Cardinality({k \in 1..Len(email) : email[k] = "@"}) = 1
  /\ \E p \in 2..Len(email) :
        /\ email[p] = "@"
        /\ \E q \in (p + 2)..(Len(email) - 1) : email[q] = "."

\* The records a JSON source file may hold; a missing or empty field is <<>>.
RawRecords ==
  { [name |-> <<"a">>, email |-> <<"a", ".", "b", "@", "x", ".", "c">>],
    [name |-> <<"a">>, email |-> <<"a", "_", "b", "@", "x", ".", "c">>],
    [name |-> <<"A">>, email |-> <<"A", ".", "b", "@", "x", ".", "c">>],
    [name |-> <<"b", " ">>, email |-> <<"b", "@", "x", ".", "c">>],
    [name |-> <<" ">>, email |-> <<"c", "@", "x", ".", "c">>],
    [name |-> <<"c">>, email |-> <<"c", "@", "x">>] }

RECURSIVE SeqsUpTo(_, _)
SeqsUpTo(S, n) ==
  IF n = 0 THEN {<<>>}
  ELSE LET shorter == SeqsUpTo(S, n - 1)
       IN  shorter \cup {Append(s, x) : s \in {t \in shorter : Len(t) = n - 1}, x \in S}

\* The record-validating loop of loadPersonData: TRUE when every record
\* passes the name and email tests.
RecordsValid(data) ==
  \A k \in 1..Len(data) :
    /\ data[k].name # <<>> /\ Trim(data[k].name) # <<>>
    /\ data[k].email # <<>> /\ isValidEmail(data[k].email)

\* validatedData: each record trimmed, the email lowercased.
ValidatedData(data) ==
  [k \in 1..Len(data) |->
     [name  |-> Trim(data[k].name),
      email |-> ToLowerCase(Trim(data[k].email))]]

\* The duplicates list built from emailSet.
DuplicateEmails(validated) ==
  {k \in 1..Len(validated) :
     \E j \in 1..(k - 1) : validated[j].email = validated[k].email}

\* A certificate item: absent optional fields are <<>>; fontSize is <<>> or
\* <<number>>.
Item(name, email, fontSize, outputPath) ==
  [name |-> name, email |-> email, fontSize |-> fontSize,
   outputPath |-> outputPath]

\* DataLoader.loadProductionModeConfigs, after a successful loadPersonData.
loadProductionModeConfigs(config, data) ==
  LET personData == ValidatedData(data)
  IN  [k \in 1..Len(personData) |->
         Item(personData[k].name, personData[k].email, <<config.fontSize>>, <<>>)]

\* DataLoader.loadTestModeConfigs, after the testName test.
loadTestModeConfigs(config) ==
  <<Item(config.testName, <<>>, <<config.fontSize>>, <<>>)>>

\* The items a library caller hands to generateCertificates directly.
CallerItems ==
  { Item(<<"a">>, <<"a", "@", "x", ".", "c">>, <<>>, <<>>),
    Item(<<>>, <<"b", "@", "x", ".", "c">>, <<>>, <<>>),
    Item(<<"b">>, <<>>, <<Num(0)>>, <<"o", ".", "pdf">>) }

(* ------------------------------------------------------------------ *)
(* CertificateGenerator (src/certificate-generator.ts)                 *)
(* ------------------------------------------------------------------ *)

\* What the file system holds at the two asset paths.
TemplateFiles == {"missing", "unreadable", "corrupt", "nopages", "ok"}
FontFiles     == {"missing", "unreadable", "bad", "ok"}

\* CertificateGenerator.validateOptions, up to the file-system calls:
\* the error it throws, or NoError.
validateOptions(opts) ==
  IF opts.templatePath = <<>> \/ opts.fontPath = <<>> \/ opts.outputDir = <<>>
  THEN InvalidConfigError(<<"templatePath, fontPath, and outputDir are required">>)
  ELSE IF JsLe(opts.concurrency, Num(0))
  THEN InvalidConfigError(<<"concurrency must be greater than 0">>)
  ELSE IF opts.mode = "test" /\ (opts.testName = <<>> \/ Trim(opts.testName) = <<>>)
  THEN InvalidConfigError(<<"testName is required when mode is \"test\"">>)
  ELSE NoError

\* FileUtil.validateFilesExist([templatePath, fontPath])
validateFilesExist(template, font) ==
  IF template = "missing" \/ font = "missing"
  THEN FileNotFoundError(<<"Missing required files">>, <<>>)
  ELSE NoError

\* loadAssets that defers reading the assets to the first render.
loadAssetsDeferred(template, font) == NoError

\* CertificateGenerator.loadAssets
loadAssets(template, font) ==
  IF template = "unreadable" \/ font = "unreadable"
  THEN FileNotFoundError(<<"Failed to load required assets">>,
                         <<RawError("readFileSync")>>)
  ELSE NoError

\* The constructor: validateOptions (with its file-system calls) and then
\* loadAssets; mkdirOk is whether FileUtil.ensureDir(outputDir) succeeds.
\* The error the constructor throws, or NoError.
constructorError(opts, template, font, mkdirOk) ==
  IF validateOptions(opts) # NoError THEN validateOptions(opts)
  ELSE IF validateFilesExist(template, font) # NoError
  THEN validateFilesExist(template, font)
  ELSE IF ~mkdirOk THEN RawError("mkdirSync")
  ELSE loadAssets(template, font)

\* The date part of a generated file name (one calendar day per run).
Timestamp == <<"YYYY-MM-DD">>

\* path.join(dir, file)
join(dir, file) == dir \o <<"/">> \o file

\* CertificateGenerator.generateOutputPath
generateOutputPath(config, opts) ==
  IF config.outputPath # <<>> THEN config.outputPath
  ELSE LET sanitizedName == sanitizeFilename(config.name)
           filename ==
             IF config.email # <<>> /\ opts.mode = "production"
             THEN sanitizedName \o <<"_">> \o sanitizeFilename(config.email)
             ELSE sanitizedName
       IN  join(opts.outputDir, filename \o <<"_">> \o Timestamp \o <<".pdf">>)

\* validateCertificateConfig with the email required in every mode.
validateRequiringEmail(config, opts) ==
  IF config.name = <<>> \/ Trim(config.name) = <<>>
  THEN InvalidConfigError(<<"Certificate name cannot be empty">>)
  ELSE IF /\ config.fontSize # <<>>
          /\ JsTruthy(config.fontSize[1])
          /\ (JsLe(config.fontSize[1], Num(0)) \/ JsGt(config.fontSize[1], Num(200)))
  THEN InvalidConfigError(<<"Font size must be between 1 and 200">>)
  ELSE IF config.email = <<>> \/ Trim(config.email) = <<>>
  THEN InvalidConfigError(<<"Email is required in production mode">>)
  ELSE NoError

\* CertificateGenerator.validateCertificateConfig: the error it throws, or
\* NoError.
validateCertificateConfig(config, opts) ==
  IF config.name = <<>> \/ Trim(config.name) = <<>>
  THEN InvalidConfigError(<<"Certificate name cannot be empty">>)
  ELSE IF /\ config.fontSize # <<>>
          /\ JsTruthy(config.fontSize[1])
          /\ (JsLe(config.fontSize[1], Num(0)) \/ JsGt(config.fontSize[1], Num(200)))
  THEN InvalidConfigError(<<"Font size must be between 1 and 200">>)
  ELSE IF opts.mode = "production" /\ (config.email = <<>> \/ Trim(config.email) = <<>>)
  THEN InvalidConfigError(<<"Email is required in production mode">>)
  ELSE NoError

\* catchBlock without the instanceof test.
catchBlockAlwaysWrap(config, error) ==
  [class |-> "CertificateGeneratorError",
   message |-> <<"Failed to generate certificate for: ">> \o config.name,
   cause |-> <<error>>]

\* The catch block of generateCertificate: what it throws for a caught error.
catchBlock(config, error) ==
  IF IsCertificateGeneratorError(error) THEN error
  ELSE CertificateGeneratorError(
         <<"Failed to generate certificate for: ">> \o config.name, <<error>>)

\* The effect of one synchronous stretch of generateCertificate: the state
\* the render is left in, the error it rejects with, the steps it attempted,
\* the output path it resolved and whether writeFileSync returned.
Effect(state, error, steps, path, wrote) ==
  [state |-> state, error |-> error, steps |-> steps, path |-> path,
   wrote |-> wrote]

\* callGenerateCertificate with the template load started before the item
\* is validated.
callLoadingBeforeValidation(config, opts) ==
  IF validateCertificateConfig(config, opts) # NoError
  THEN Effect("rejected", validateCertificateConfig(config, opts),
              <<"load", "validate">>, <<>>, FALSE)
  ELSE Effect("awaitLoad", NoError, <<"load", "validate">>, <<>>, FALSE)

\* generateCertificate from its call to the first await (PDFDocument.load).
\* validateCertificateConfig runs outside the try block.
callGenerateCertificate(config, opts) ==
  IF validateCertificateConfig(config, opts) # NoError
  THEN Effect("rejected", validateCertificateConfig(config, opts),
              <<"validate">>, <<>>, FALSE)
  ELSE Effect("awaitLoad", NoError, <<"validate", "load">>, <<>>, FALSE)

\* From the resumption after PDFDocument.load to the await of embedFont.
afterLoad(config, template) ==
  IF template = "corrupt"
  THEN Effect("rejected", catchBlock(config, RawError("PDFDocument.load")),
              <<>>, <<>>, FALSE)
  ELSE IF template = "nopages"
  THEN Effect("rejected",
              catchBlock(config,
                CertificateGeneratorError(<<"Template PDF has no pages">>, <<>>)),
              <<>>, <<>>, FALSE)
  ELSE Effect("awaitEmbed", NoError, <<"embed">>, <<>>, FALSE)

\* From the resumption after embedFont to the await of pdfDoc.save():
\* drawText, generateOutputPath, ensureDirForFile.  fault names the call
\* that fails, if any.
afterEmbed(config, opts, font, fault) ==
  IF font = "bad"
  THEN Effect("rejected", catchBlock(config, RawError("embedFont")),
              <<>>, <<>>, FALSE)
  ELSE IF fault = "draw"
  THEN Effect("rejected", catchBlock(config, RawError("drawText")),
              <<"draw">>, <<>>, FALSE)
  ELSE IF fault = "mkdir"
  THEN Effect("rejected", catchBlock(config, RawError("mkdirSync")),
              <<"draw", "path", "mkdir">>, generateOutputPath(config, opts), FALSE)
  ELSE Effect("awaitSave", NoError, <<"draw", "path", "mkdir", "save">>,
              generateOutputPath(config, opts), FALSE)

\* afterSave with the file written before the document is serialized.
afterSaveWriteFirst(config, fault) ==
  IF fault = "write"
  THEN Effect("rejected", catchBlock(config, RawError("writeFileSync")),
              <<"write">>, <<>>, FALSE)
  ELSE IF fault = "save"
  THEN Effect("rejected", catchBlock(config, RawError("save")),
              <<"write">>, <<>>, TRUE)
  ELSE Effect("fulfilled", NoError, <<"write">>, <<>>, TRUE)

\* From the resumption after pdfDoc.save() to the return: writeFileSync.
afterSave(config, fault) ==
  IF fault = "save"
  THEN Effect("rejected", catchBlock(config, RawError("save")), <<>>, <<>>, FALSE)
  ELSE IF fault = "write"
  THEN Effect("rejected", catchBlock(config, RawError("writeFileSync")),
              <<"write">>, <<>>, FALSE)
  ELSE Effect("fulfilled", NoError, <<"write">>, <<>>, TRUE)

\* chunkOf without the upper bound of the slice: configs.slice(i).
chunkOfUnbounded(index, concurrency, len) ==
  SliceIndices(index, Num(len), len)

\* chunkOf with the end of the slice one short.
chunkOfShort(index, concurrency, len) ==
  SliceIndices(index, JsAdd(index, JsAdd(concurrency, Num(-1))), len)

\* const chunk = configs.slice(i, i + this.options.concurrency)
chunkOf(index, concurrency, len) ==
  SliceIndices(index, JsAdd(index, concurrency), len)

\* resultsOrder with the results taken as they settle.
resultsByCompletion(launched, completion) ==
  SelectSeq(completion, LAMBDA k : \E j \in 1..Len(launched) : launched[j] = k)

\* resultsOrder with the results array filled from its end.
resultsReversed(launched, completion) ==
  [j \in 1..Len(launched) |-> launched[Len(launched) + 1 - j]]

\* The order of the results array of Promise.all(promises): the order of
\* the promises, that is of the chunk, whatever the order of completion.
resultsOrder(launched, completion) == launched

\* exitStatus that ignores the failed list.
exitStatusAlwaysZero(failedList) == 0

\* Promise.race in place of Promise.all: one settled promise is enough.
promiseRace(states) == \E j \in 1..Len(states) : states[j] \in {"fulfilled", "rejected"}

\* Promise.all raced against a timer that has fired: nothing is waited for.
promiseAllOrTimeout(states) == TRUE

\* await Promise.all(promises) resumes once every promise of the chunk has
\* settled (the wrappers never reject); states are the renders' states in
\* chunk order.
promiseAll(states) == \A j \in 1..Len(states) : states[j] \in {"fulfilled", "rejected"}

\* The loop step with the index advanced by one item.
advanceByOne(index, concurrency) == JsAdd(index, Num(1))

\* for (...; i += this.options.concurrency)
advance(index, concurrency) == JsAdd(index, concurrency)

\* process.exit(results.failed.length > 0 ? 1 : 0)
exitStatus(failedList) == IF Len(failedList) > 0 THEN 1 ELSE 0

(* ------------------------------------------------------------------ *)
(* State                                                               *)
(* ------------------------------------------------------------------ *)

VARIABLES
  host,          \* "main" (src/index.ts) or "library" (a direct caller)
  pc,            \* where the host is
  templateFile,  \* what the template path holds
  fontFile,      \* what the font path holds
  config,        \* the AppConfig of loadConfig
  options,       \* this.options of the generator
  configs,       \* the batch given to generateCertificates
  i,             \* the loop index of generateCertificates
  chunk,         \* the indices of the chunk being awaited
  rstate,        \* per item: idle, awaitLoad, awaitEmbed, awaitSave, fulfilled, rejected
  rerr,          \* per item: the error its render rejected with
  rpath,         \* per item: the output path its render resolved
  steps,         \* per item: the steps its renders attempted, in order
  wrote,         \* per item: whether its writeFileSync returned
  successful,    \* the successful array
  failed,        \* the failed array
  successfulOf,  \* the item index behind each entry of successful
  failedOf,      \* the item index behind each entry of failed
  resolved,      \* the item indices in the order their renders settled
  groups,        \* the chunks launched so far, in order
  thrown,        \* the error that ended the run before the batch, if any
  thrownBy,      \* the call that threw it
  exitCode       \* the process exit status, -1 while running

vars ==
  <<host, pc, templateFile, fontFile, config, options, configs, i, chunk,
    rstate, rerr, rpath, steps, wrote, successful, failed, successfulOf,
    failedOf, resolved, groups, thrown, thrownBy, exitCode>>

batchVars ==
  <<i, chunk, rstate, rerr, rpath, steps, wrote, successful, failed,
    successfulOf, failedOf, resolved, groups>>

Items == 1..Len(configs)

Settled(k) == rstate[k] \in {"fulfilled", "rejected"}

\* The renders started and not yet completed.
Outstanding == {k \in Items : rstate[k] \in {"awaitLoad", "awaitEmbed", "awaitSave"}}

\* The options a library caller constructs the generator with.
CallerOptions ==
  { [templatePath |-> <<"t.pdf">>, fontPath |-> <<"f.ttf">>, outputDir |-> <<"out">>,
     defaultFontSize |-> Num(54), concurrency |-> c, mode |-> m,
     testName |-> <<"a">>] :
    c \in {Num(0)} \cup {Num(k) : k \in 1..MaxConc},
    m \in {"test", "production"} }

\* The state of a batch before generateCertificates runs on it.
InitBatch(items) ==
  /\ configs = items
  /\ i = Num(0)
  /\ chunk = <<>>
  /\ rstate = [k \in 1..Len(items) |-> "idle"]
  /\ rerr = [k \in 1..Len(items) |-> NoError]
  /\ rpath = [k \in 1..Len(items) |-> <<>>]
  /\ steps = [k \in 1..Len(items) |-> <<>>]
  /\ wrote = [k \in 1..Len(items) |-> FALSE]
  /\ successful = <<>>
  /\ failed = <<>>
  /\ successfulOf = <<>>
  /\ failedOf = <<>>
  /\ resolved = <<>>
  /\ groups = <<>>

\* The host obtains the batch items: the same values, as the next state.
SetBatch(items) ==
  /\ configs' = items
  /\ i' = Num(0)
  /\ chunk' = <<>>
  /\ rstate' = [k \in 1..Len(items) |-> "idle"]
  /\ rerr' = [k \in 1..Len(items) |-> NoError]
  /\ rpath' = [k \in 1..Len(items) |-> <<>>]
  /\ steps' = [k \in 1..Len(items) |-> <<>>]
  /\ wrote' = [k \in 1..Len(items) |-> FALSE]
  /\ successful' = <<>>
  /\ failed' = <<>>
  /\ successfulOf' = <<>>
  /\ failedOf' = <<>>
  /\ resolved' = <<>>
  /\ groups' = <<>>

Init ==
  /\ host \in {"main", "library"}
  /\ pc = "start"
  /\ templateFile \in TemplateFiles
  /\ fontFile \in FontFiles
  /\ config = NoConfig
  /\ options = generatorOptions(NoConfig)
  /\ InitBatch(<<>>)
  /\ thrown = NoError
  /\ thrownBy = ""
  /\ exitCode = -1

(* ------------------------------------------------------------------ *)
(* The host: main of src/index.ts, or a library caller                 *)
(* ------------------------------------------------------------------ *)

\* The catch block of main: log and process.exit(1).
MainCatch(error, by) ==
  /\ thrown' = error
  /\ thrownBy' = by
  /\ pc' = "exited"
  /\ exitCode' = 1

\* const config = ConfigManager.loadConfig() and the generatorOptions object.
LoadConfig ==
  /\ host = "main"
  /\ pc = "start"
  /\ \E MODE \in EnvModes, CONCURRENCY \in EnvConcurrencies,
        TEST_NAME \in EnvTestNames, FONT_SIZE \in EnvFontSizes :
       /\ MODE # "test" => TEST_NAME = <<>>
       /\ config' = loadConfig(MODE, CONCURRENCY, TEST_NAME, FONT_SIZE)
  /\ options' = generatorOptions(config')
  /\ pc' = "configured"
  /\ UNCHANGED <<host, templateFile, fontFile, batchVars, configs, thrown,
                 thrownBy, exitCode>>

\* dataLoader.loadCertificateConfigs(config) in test mode.
LoadTestData ==
  /\ host = "main"
  /\ pc = "configured"
  /\ config.mode = "test"
  /\ IF config.testName = <<>>
     THEN /\ MainCatch(RawError("TEST_NAME environment variable is required in test mode"),
                       "loadCertificateConfigs")
          /\ UNCHANGED <<configs, batchVars>>
     ELSE /\ SetBatch(loadTestModeConfigs(config))
          /\ pc' = "loaded"
          /\ UNCHANGED <<thrown, thrownBy, exitCode>>
  /\ UNCHANGED <<host, templateFile, fontFile, config, options>>

\* dataLoader.loadCertificateConfigs(config) in any other mode, on a source
\* file that is missing, is not a JSON array, or holds the records data.
LoadProductionData ==
  /\ host = "main"
  /\ pc = "configured"
  /\ config.mode # "test"
  /\ \/ /\ MainCatch(FileNotFoundError(<<"emails.json">>, <<>>), "loadCertificateConfigs")
        /\ UNCHANGED <<configs, batchVars>>
     \/ /\ MainCatch(DataValidationError(<<"JSON file must contain an array">>),
                     "loadCertificateConfigs")
        /\ UNCHANGED <<configs, batchVars>>
     \/ \E data \in SeqsUpTo(RawRecords, MaxItems) :
          IF ~RecordsValid(data)
          THEN /\ MainCatch(DataValidationError(<<"invalid or missing name or email">>),
                            "loadCertificateConfigs")
               /\ UNCHANGED <<configs, batchVars>>
          ELSE IF DuplicateEmails(ValidatedData(data)) # {}
          THEN /\ MainCatch(DataValidationError(<<"Duplicate emails found">>),
                            "loadCertificateConfigs")
               /\ UNCHANGED <<configs, batchVars>>
          ELSE /\ SetBatch(loadProductionModeConfigs(config, data))
               /\ pc' = "loaded"
               /\ UNCHANGED <<thrown, thrownBy, exitCode>>
  /\ UNCHANGED <<host, templateFile, fontFile, config, options>>

\* A library caller chooses the options and the batch itself.
CallerSetup ==
  /\ host = "library"
  /\ pc = "start"
  /\ options' \in CallerOptions
  /\ \E items \in SeqsUpTo(CallerItems, MaxItems) : SetBatch(items)
  /\ pc' = "loaded"
  /\ UNCHANGED <<host, templateFile, fontFile, config, thrown, thrownBy, exitCode>>

\* new CertificateGenerator(generatorOptions).  A throw reaches main's
\* catch block (exit 1) or the library caller.
Construct ==
  /\ pc = "loaded"
  /\ \E mkdirOk \in BOOLEAN :
       LET e == constructorError(options, templateFile, fontFile, mkdirOk)
       IN  IF e = NoError
           THEN /\ pc' = "loop"
                /\ UNCHANGED <<thrown, thrownBy, exitCode>>
           ELSE IF host = "main"
           THEN MainCatch(e, "constructor")
           ELSE /\ thrown' = e
                /\ thrownBy' = "constructor"
                /\ pc' = "raised"
                /\ UNCHANGED exitCode
  /\ UNCHANGED <<host, templateFile, fontFile, config, options, configs, batchVars>>

(* ------------------------------------------------------------------ *)
(* generateCertificates: the chunked batch loop                        *)
(* ------------------------------------------------------------------ *)

InChunk(c, k) == \E j \in 1..Len(c) : c[j] = k

\* One loop iteration up to `await Promise.all(promises)`: the chunk is
\* sliced and chunk.map calls generateCertificate for every item of it;
\* each call runs to its first await.  An item that fails validation has a
\* rejected promise at once, and its wrapper settles (in launch order) in
\* the microtasks that run before any awaited I/O completes.
StartGroup ==
  /\ pc = "loop"
  /\ JsLt(i, Num(Len(configs)))
  /\ LET c      == chunkOf(i, options.concurrency, Len(configs))
         eff(k) == callGenerateCertificate(configs[k], options)
     IN  /\ chunk' = c
         /\ rstate' = [k \in Items |-> IF InChunk(c, k) THEN eff(k).state ELSE rstate[k]]
         /\ rerr' = [k \in Items |-> IF InChunk(c, k) THEN eff(k).error ELSE rerr[k]]
         /\ steps' = [k \in Items |->
                        IF InChunk(c, k) THEN steps[k] \o eff(k).steps ELSE steps[k]]
         /\ resolved' = resolved \o SelectSeq(c, LAMBDA k : eff(k).state = "rejected")
         /\ groups' = Append(groups, c)
  /\ pc' = "await"
  /\ UNCHANGED <<host, templateFile, fontFile, config, options, configs, i,
                 rpath, wrote, successful, failed, successfulOf, failedOf,
                 thrown, thrownBy, exitCode>>

\* The render of item k takes the effect eff; a settled render joins the
\* completion order.
Apply(k, eff) ==
  /\ rstate' = [rstate EXCEPT ![k] = eff.state]
  /\ rerr' = [rerr EXCEPT ![k] = eff.error]
  /\ steps' = [steps EXCEPT ![k] = @ \o eff.steps]
  /\ rpath' = [rpath EXCEPT ![k] = IF eff.path # <<>> THEN eff.path ELSE @]
  /\ wrote' = [wrote EXCEPT ![k] = @ \/ eff.wrote]
  /\ resolved' = IF eff.state \in {"fulfilled", "rejected"}
                 THEN Append(resolved, k) ELSE resolved
  /\ UNCHANGED <<host, pc, templateFile, fontFile, config, options, configs, i,
                 chunk, successful, failed, successfulOf, failedOf, groups,
                 thrown, thrownBy, exitCode>>

\* PDFDocument.load(this.templateBuffer) settles for item k.
LoadSettles(k) ==
  /\ pc = "await"
  /\ rstate[k] = "awaitLoad"
  /\ Apply(k, afterLoad(configs[k], templateFile))

\* pdfDoc.embedFont settles for item k.
EmbedSettles(k) ==
  /\ pc = "await"
  /\ rstate[k] = "awaitEmbed"
  /\ \E fault \in {"none", "draw", "mkdir"} :
       Apply(k, afterEmbed(configs[k], options, fontFile, fault))

\* pdfDoc.save() settles for item k.
SaveSettles(k) ==
  /\ pc = "await"
  /\ rstate[k] = "awaitSave"
  /\ \E fault \in {"none", "save", "write"} :
       Apply(k, afterSave(configs[k], fault))

\* The entries results.forEach appends to successful and to failed, as
\* item indices, for the results in the order order.
SuccessIndices(order) ==
  SelectSeq(order, LAMBDA k : rstate[k] = "fulfilled" /\ rpath[k] # <<>>)

FailureIndices(order) ==
  SelectSeq(order, LAMBDA k : ~(rstate[k] = "fulfilled" /\ rpath[k] # <<>>))

\* Promise.all resolves once every promise of the chunk has settled; then
\* results.forEach sorts the results into successful and failed, the
\* progress line is logged and the loop index advances.
GroupDone ==
  /\ pc = "await"
  /\ promiseAll([j \in 1..Len(chunk) |-> rstate[chunk[j]]])
  /\ LET order == resultsOrder(chunk, resolved)
         succ  == SuccessIndices(order)
         fail  == FailureIndices(order)
     IN  /\ successful' = successful \o [j \in 1..Len(succ) |-> rpath[succ[j]]]
         /\ successfulOf' = successfulOf \o succ
         /\ failed' = failed \o
              [j \in 1..Len(fail) |->
                 [config |-> configs[fail[j]],
                  error  |-> IF rerr[fail[j]] # NoError THEN rerr[fail[j]]
                             ELSE RawError("Unknown error")]]
         /\ failedOf' = failedOf \o fail
  /\ i' = advance(i, options.concurrency)
  /\ pc' = "loop"
  /\ UNCHANGED <<host, templateFile, fontFile, config, options, configs, chunk,
                 rstate, rerr, rpath, steps, wrote, resolved, groups, thrown,
                 thrownBy, exitCode>>

\* The loop test fails: return { successful, failed }.
Return ==
  /\ pc = "loop"
  /\ ~JsLt(i, Num(Len(configs)))
  /\ pc' = "returned"
  /\ UNCHANGED <<host, templateFile, fontFile, config, options, configs,
                 batchVars, thrown, thrownBy, exitCode>>

\* main reports the result and exits.
Exit ==
  /\ host = "main"
  /\ pc = "returned"
  /\ exitCode' = exitStatus(failed)
  /\ pc' = "exited"
  /\ UNCHANGED <<host, templateFile, fontFile, config, options, configs,
                 batchVars, thrown, thrownBy>>

Next ==
  \/ LoadConfig
  \/ LoadTestData
  \/ LoadProductionData
  \/ CallerSetup
  \/ Construct
  \/ StartGroup
  \/ \E k \in Items : LoadSettles(k)
  \/ \E k \in Items : EmbedSettles(k)
  \/ \E k \in Items : SaveSettles(k)
  \/ GroupDone
  \/ Return
  \/ Exit

Spec == Init /\ [][Next]_vars

(* ------------------------------------------------------------------ *)
(* Properties                                                          *)
(* ------------------------------------------------------------------ *)

\* a stands before b in seq.
Before(seq, a, b) ==
  \E p, q \in 1..Len(seq) : p < q /\ seq[p] = a /\ seq[q] = b

\* The outcome of the render of item k.
Rejected(k) == rstate[k] = "rejected"
Fulfilled(k) == rstate[k] = "fulfilled"

AllIndices == [k \in 1..Len(configs) |-> k]

\* The generator exists: the constructor completed without raising.
Constructed == pc \in {"loop", "await", "returned"} \/ (pc = "exited" /\ thrownBy = "")

\* C1: with a concurrency C >= 1, the renders started and not yet completed
\* never number more than C.
C1_OutstandingAtMostConcurrency ==
  (~options.concurrency.nan /\ options.concurrency.n >= 1)
    => Cardinality(Outstanding) <= options.concurrency.n

\* C1 witness: a batch longer than the concurrency with a full group in flight.
C1_Witness ==
  /\ ~options.concurrency.nan
  /\ options.concurrency.n >= 2
  /\ Len(configs) > options.concurrency.n
  /\ Cardinality(Outstanding) = options.concurrency.n

\* C2 (as claimed): when generateCertificates returns, failed holds as many
\* entries as items failed and successful holds one entry for every other
\* item of the batch.
C2_CountsMatchOutcomes ==
  pc = "returned" =>
    /\ Len(failed) = Cardinality({k \in Items : Rejected(k)})
    /\ Len(successful) = Len(configs) - Cardinality({k \in Items : Rejected(k)})

C4_SingleClassifiedError ==
  \A k \in Items : Rejected(k) =>
    /\ IsCertificateGeneratorError(rerr[k])
    /\ \/ /\ rerr[k].class = "InvalidConfigError"
          /\ rerr[k].cause = <<>>
          /\ steps[k] = <<"validate">>
       \/ /\ rerr[k] = CertificateGeneratorError(<<"Template PDF has no pages">>, <<>>)
          /\ templateFile = "nopages"
       \/ /\ rerr[k].class = "CertificateGeneratorError"
          /\ rerr[k].message =
               <<"Failed to generate certificate for: ">> \o configs[k].name
          /\ Len(rerr[k].cause) = 1
          /\ ~IsCertificateGeneratorError(rerr[k].cause[1])
          /\ rerr[k].cause[1].cause = <<>>
          /\ Len(steps[k]) > 1

\* C4 witness: the template has no pages and a render has rejected with the
\* no-pages error.
C4_Witness ==
  \E k \in Items :
    /\ Rejected(k)
    /\ templateFile = "nopages"
    /\ rerr[k].class = "CertificateGeneratorError"

ClaimedInvalid(item, mode) ==
  \/ item.name = <<>> \/ Trim(item.name) = <<>>
  \/ /\ item.fontSize # <<>>
     /\ (item.fontSize[1].nan \/ item.fontSize[1].n < 1 \/ item.fontSize[1].n > 200)
  \/ mode = "production" /\ (item.email = <<>> \/ Trim(item.email) = <<>>)

\* C6 (as claimed): a render is rejected by validation exactly when the name
\* is blank, or a font size override is present and outside [1, 200], or
\* the mode is production and the email is blank.
C6_ValidationAsClaimed ==
  \A k \in Items : steps[k] # <<>> =>
    ((Rejected(k) /\ steps[k] = <<"validate">>)
       <=> ClaimedInvalid(configs[k], options.mode))

\* C7 (as claimed): once the constructor has completed, the options hold a
\* concurrency >= 1 and, in test mode, a test name that is not blank.
C7_ConstructedOptionsValid ==
  Constructed =>
    /\ ~options.concurrency.nan
    /\ options.concurrency.n >= 1
    /\ options.mode = "test" => Trim(options.testName) # <<>>

\* The assets cannot be loaded, or the options are invalid.
AssetsFail ==
  \/ templateFile \in {"missing", "unreadable"}
  \/ fontFile \in {"missing", "unreadable"}

OptionsFail ==
  \/ ~options.concurrency.nan /\ options.concurrency.n <= 0
  \/ options.mode = "test" /\ Trim(options.testName) = <<>>

\* C8: when options validation or asset loading fails, the run ends in the
\* constructor: no render is started, no result is produced, and main exits
\* with status 1.
C8_FatalBeforeBatch ==
  (pc \notin {"start", "configured", "loaded"}
     /\ thrownBy # "loadCertificateConfigs"
     /\ (AssetsFail \/ OptionsFail))
    => /\ thrownBy = "constructor"
       /\ \A k \in Items : steps[k] = <<>> /\ rstate[k] = "idle"
       /\ successful = <<>> /\ failed = <<>>
       /\ IF host = "main" THEN pc = "exited" /\ exitCode = 1 ELSE pc = "raised"

\* C8 witness: main exited with status 1 from the constructor, on a
\* non-empty batch, because an asset could not be read.
C8_Witness ==
  /\ host = "main"
  /\ pc = "exited"
  /\ exitCode = 1
  /\ thrownBy = "constructor"
  /\ thrown.class = "FileNotFoundError"
  /\ templateFile = "unreadable"
  /\ Len(configs) > 0

\* C9: when main exits after generateCertificates returned, the exit status
\* is non-zero exactly when failed is not empty.
C9_ExitStatusIffFailed ==
  (pc = "exited" /\ thrownBy = "") =>
    /\ exitCode \in {0, 1}
    /\ (exitCode # 0 <=> Len(failed) > 0)

\* C9 witness: main exited with status 1 after a batch with successes and
\* a failure.
C9_Witness ==
  /\ pc = "exited"
  /\ thrownBy = ""
  /\ exitCode = 1
  /\ Len(successful) > 0
  /\ Len(failed) > 0

\* C10 (as claimed): in production mode, two renders of a loader-produced
\* batch that are in flight together never hold the same output path.
C10_DistinctPathsInFlight ==
  (host = "main" /\ options.mode = "production") =>
    \A j, k \in Items :
      (j # k /\ rstate[j] = "awaitSave" /\ rstate[k] = "awaitSave")
        => rpath[j] # rpath[k]

(* ------------------------------------------------------------------ *)
(* sanitizeFilename on its own                                         *)
(* ------------------------------------------------------------------ *)

\* The characters of the file names tried: a lower-case and an upper-case
\* letter, a digit, the underscore and two other characters.
SanitizeChars == {"a", "A", "1", "_", " ", "."}

\* A caller holds one file name.
InitSanitize ==
  /\ host = "library"
  /\ pc = "sanitize"
  /\ templateFile = "ok"
  /\ fontFile = "ok"
  /\ config = NoConfig
  /\ options = generatorOptions(NoConfig)
  /\ \E name \in SeqsUpTo(SanitizeChars, MaxNameLen) :
       InitBatch(<<Item(name, <<>>, <<>>, <<>>)>>)
  /\ thrown = NoError
  /\ thrownBy = ""
  /\ exitCode = -1

\* FileUtil.sanitizeFilename(name); the result is kept in rpath[1].
Sanitize ==
  /\ pc = "sanitize"
  /\ rpath' = [rpath EXCEPT ![1] = sanitizeFilename(configs[1].name)]
  /\ pc' = "sanitized"
  /\ UNCHANGED <<host, templateFile, fontFile, config, options, configs, i,
                 chunk, rstate, rerr, steps, wrote, successful, failed,
                 successfulOf, failedOf, resolved, groups, thrown, thrownBy,
                 exitCode>>

NextSanitize == Sanitize

SpecSanitize == InitSanitize /\ [][NextSanitize]_vars

\* C11: the result of sanitizeFilename holds only characters of [a-z0-9_],
\* no two consecutive underscores, and no underscore at either end.
C11_SanitizedShape ==
  pc = "sanitized" =>
    LET r == rpath[1]
    IN  /\ \A p \in 1..Len(r) : r[p] \in LowerChars \cup DigitChars \cup {"_"}
        /\ \A p \in 1..(Len(r) - 1) : ~(r[p] = "_" /\ r[p + 1] = "_")
        /\ r # <<>> => (r[1] # "_" /\ r[Len(r)] # "_")

\* C11 witness: a name with an upper-case letter between runs of other
\* characters has been sanitized to a shorter, non-empty name.
C11_Witness ==
  /\ pc = "sanitized"
  /\ configs[1].name = <<".", "A", " ", "_">>
  /\ rpath[1] = <<"a">>

(* ------------------------------------------------------------------ *)
(* Properties of the run, continued                                    *)
(* ------------------------------------------------------------------ *)

\* main is past the data loader in test mode with a non-empty test name.
TestModeLoaded ==
  /\ host = "main"
  /\ config.mode = "test"
  /\ config.testName # <<>>
  /\ pc \notin {"start", "configured"}

\* generateCertificates has returned its result.
Returned == pc = "returned" \/ (pc = "exited" /\ thrownBy = "")

\* The render of item k was started.
Started(k) == steps[k] # <<>>

\* The render of item k was rejected by validateCertificateConfig.
RejectedByValidation(k) == Rejected(k) /\ steps[k] = <<"validate">>

Recorded(k) ==
  \/ \E p \in 1..Len(successfulOf) : successfulOf[p] = k
  \/ \E p \in 1..Len(failedOf) : failedOf[p] = k

\* Items j and k belong to the group being awaited.
InAwaitedGroup(j, k) == pc = "await" /\ InChunk(chunk, j) /\ InChunk(chunk, k)

\* C13: groups run strictly one after the other: once the render of an item
\* is started, every earlier item outside its group has settled and has its
\* outcome recorded in successful or failed.
C13_GroupsInSequence ==
  \A j, k \in Items :
    (j < k /\ Started(k) /\ ~InAwaitedGroup(j, k))
      => (Settled(j) /\ Recorded(j))

\* C13 witness: a render of the second group is in flight after the first
\* group was recorded.
C13_Witness ==
  /\ pc = "await"
  /\ Len(groups) = 2
  /\ Len(groups[1]) >= 2
  /\ \E k \in Outstanding : InChunk(chunk, k)
  /\ \A p \in 1..Len(groups[1]) : Recorded(groups[1][p])

\* The groups launched so far, one after the other.
RECURSIVE Flatten(_)
Flatten(seqs) == IF seqs = <<>> THEN <<>> ELSE Head(seqs) \o Flatten(Tail(seqs))

CeilDiv(n, c) == (n + c - 1) \div c

\* C14: with a concurrency C >= 1 the groups are the consecutive slices of
\* the input of size C (the last one possibly shorter); a returned batch of
\* N items has formed exactly ceil(N/C) groups that together are the input,
\* and an empty batch has formed none and returns an empty result.
C14_GroupsAreSlices ==
  (Constructed /\ ~options.concurrency.nan /\ options.concurrency.n >= 1) =>
    LET C == options.concurrency.n
        N == Len(configs)
    IN  /\ \A g \in 1..Len(groups) :
             /\ Len(groups[g]) <= C
             /\ groups[g] = [p \in 1..Len(groups[g]) |-> (g - 1) * C + p]
             /\ g < Len(groups) => Len(groups[g]) = C
        /\ Returned =>
             /\ Len(groups) = CeilDiv(N, C)
             /\ Flatten(groups) = AllIndices
             /\ N = 0 => (groups = <<>> /\ successful = <<>> /\ failed = <<>>)

\* C14 witness: a returned batch longer than the concurrency whose last
\* group is shorter than the others.
C14_Witness ==
  /\ Returned
  /\ ~options.concurrency.nan
  /\ options.concurrency.n >= 2
  /\ Len(groups) >= 2
  /\ Len(groups[Len(groups)]) < options.concurrency.n

\* An empty batch has returned.
EmptyBatchReturned == Returned /\ Len(configs) = 0

\* Item k fails validateCertificateConfig under the generator's options.
FailsValidation(k) == validateCertificateConfig(configs[k], options) # NoError

\* C15: validation is the first step of every render, and a render whose
\* item fails validation performs no other step: no template load, font
\* embedding, drawing, output path, directory, serialization or file write;
\* it is rejected with the validation error.
C15_ValidationBeforeRendering ==
  \A k \in Items :
    Started(k) =>
      /\ Head(steps[k]) = "validate"
      /\ FailsValidation(k) =>
           /\ steps[k] = <<"validate">>
           /\ Rejected(k)
           /\ rerr[k] = validateCertificateConfig(configs[k], options)
           /\ rpath[k] = <<>>
           /\ ~wrote[k]

\* C15 witness: an item was rejected by validation while another item of
\* the batch was rendered and written.
C15_Witness ==
  \E j, k \in Items :
    /\ Started(j) /\ FailsValidation(j)
    /\ Started(k) /\ wrote[k]

\* How many times x occurs in seq.
Count(seq, x) == Cardinality({p \in 1..Len(seq) : seq[p] = x})

\* C16: no retries: the render of an item is started at most once and its
\* outcome is recorded at most once; an item recorded in failed stays
\* rejected, is not started again and is not in successful.
C16_NoRetries ==
  \A k \in Items :
    /\ Count(steps[k], "validate") <= 1
    /\ Count(Flatten(groups), k) <= 1
    /\ Count(successfulOf, k) + Count(failedOf, k) <= 1
    /\ Count(failedOf, k) = 1 =>
         /\ Rejected(k)
         /\ Count(successfulOf, k) = 0

\* C16 witness: the batch returned after a later group ran to success behind
\* a group with a recorded failure.
C16_Witness ==
  /\ Returned
  /\ Len(groups) >= 2
  /\ \E j, k \in Items :
       /\ j < k
       /\ ~InChunk(groups[Len(groups)], j)
       /\ InChunk(groups[Len(groups)], k)
       /\ Count(failedOf, j) = 1
       /\ Count(successfulOf, k) = 1

\* C17: no cancellation: as long as a render of a group has not completed,
\* the driver waits on that group: no outcome of the group is recorded, no
\* render of a later group is started and generateCertificates has not
\* returned, whatever the other renders of the group have done.  A render
\* that never completes therefore keeps all this true for ever.
C17_HungRenderBlocksBatch ==
  \A k \in Outstanding :
    /\ pc = "await"
    /\ InChunk(chunk, k)
    /\ ~Returned
    /\ \A j \in Items :
         /\ InChunk(chunk, j) => ~Recorded(j)
         /\ (j > k /\ ~InChunk(chunk, j)) => ~Started(j)

\* C17 witness: one render of a group is still pending after every other
\* render of the group has completed, with a later group yet to start.
C17_Witness ==
  /\ pc = "await"
  /\ Len(chunk) >= 2
  /\ Cardinality(Outstanding) = 1
  /\ \A p \in 1..Len(chunk) : Started(chunk[p])
  /\ \E j \in Items : \A p \in 1..Len(chunk) : j > chunk[p]

\* C18 (as claimed): when generateCertificates returns, every item of the
\* batch has exactly one entry in the result: its own output path in
\* successful, or a failed entry holding that item and the error its own
\* render raised; so successful.length + failed.length = N.
C18_OneOwnEntryPerItem ==
  Returned =>
    /\ Len(successful) + Len(failed) = Len(configs)
    /\ Len(successful) = Len(successfulOf)
    /\ Len(failed) = Len(failedOf)
    /\ \A k \in Items :
         /\ Count(successfulOf, k) + Count(failedOf, k) = 1
         /\ \A p \in 1..Len(successfulOf) :
              successfulOf[p] = k =>
                /\ Fulfilled(k)
                /\ successful[p] = generateOutputPath(configs[k], options)
         /\ \A p \in 1..Len(failedOf) :
              failedOf[p] = k =>
                /\ Rejected(k)
                /\ failed[p].config = configs[k]
                /\ failed[p].error = rerr[k]

\* Every started render eventually completes and the driver takes every
\* step it can take: no enabled step is postponed for ever.
SpecLive == Spec /\ WF_vars(Next)

\* Every item of the batch has been rendered to success or failure.
AllProcessed == \A k \in Items : Settled(k)

\* C19 (as claimed): for every concurrency the constructor accepts, once
\* generateCertificates runs, and every started render completes, it
\* eventually returns with all N items processed.
C19_ReturnsAfterAllProcessed == (pc = "loop") ~> (Returned /\ AllProcessed)

\* seq lists items of the input in input order, none twice.
InInputOrder(seq) == \A p, q \in 1..Len(seq) : p < q => seq[p] < seq[q]

\* C20: at every point of the batch the items behind successful and the
\* items of failed each form a subsequence of the input list in input
\* order, whatever the order in which the renders of a group completed.
C20_ListsInInputOrder ==
  /\ InInputOrder(successfulOf)
  /\ InInputOrder(failedOf)
  /\ \A p \in 1..Len(failedOf) : failed[p].config = configs[failedOf[p]]

\* C20 witness: with a group still to come, a list holds two items of one
\* group in input order although the later one completed first.
C20_Witness ==
  /\ pc = "loop"
  /\ JsLt(i, Num(Len(configs)))
  /\ \E p, q \in 1..Len(successfulOf) :
       p < q /\ Before(resolved, successfulOf[q], successfulOf[p])

====
